---------------------------- MODULE Spec2Model ----------------------------
(***************************************************************************)
(* Model of backend/gcn_processor.py: one request handled by run_gcn.     *)
(*                                                                         *)
(*   run_gcn  ->  apply_hybrid_labeling  ->  prepare_pyg_data              *)
(*            ->  100 x train_step  ->  inference  ->  response            *)
(*                                                                         *)
(* Python dicts are functions; a missing key is a key outside DOMAIN, and  *)
(* reading it raises KeyError.  Every exception is caught by the handler's *)
(* except clause, which answers with the error form.                       *)
(*                                                                         *)
(* Numbers: micro-scores, degrees and thresholds are integers here.  The   *)
(* products threshold * 1.6 and threshold * 0.8 are kept exact by          *)
(* comparing in tenths (10 * micro_score against 16 * threshold and        *)
(* 8 * threshold); for the integers drawn below the float products of the *)
(* code compare the same way.                                              *)
(*                                                                         *)
(* Tensors: a tensor is modelled by the Python list it is built from,     *)
(* and edge_index by its shape as well.  The learned weights are not       *)
(* modelled: the probabilities the trained network returns are a           *)
(* nondeterministic choice.                                                *)
(***************************************************************************)
EXTENDS Integers, Sequences, FiniteSets, TLC

\* ---------------------------------------------------------------- bounds
MaxNodes == 2
MaxEdges == 2

\* ------------------------------------------------------ program constants
EPOCHS == 100

manual_fraud == {"BinanceWallet"}
manual_clean == {}

\* Column order of the feature matrix.
FeatureOrder ==
    <<"degree", "in_degree", "out_degree", "pagerank", "tx_entropy", "micro_score">>

FeatureSet == {FeatureOrder[i] : i \in 1..Len(FeatureOrder)}

\* ------------------------------------------------------------ input sets
Ids == {"BinanceWallet", "a", "b"}
EdgeIds == {"BinanceWallet", "a"}
Scores == {-9, 0, 5}
Degrees == {2, 3}
Thresholds == {-5, 0, 5}
Probs == {50, 60}          \* fraud probability of a node, in percent

CompleteFeatures(d, s) ==
    [f \in FeatureSet |->
        CASE f = "degree" -> d
          [] f = "micro_score" -> s
          [] OTHER -> 1]

Drop(fn, k) == [f \in (DOMAIN fn) \ {k} |-> fn[f]]

InjSeqs(S, n) ==
    {s \in [1..n -> S] : \A i, j \in 1..n : i # j => s[i] # s[j]}

SeqsUpTo(S, n) == UNION {[1..k -> S] : k \in 0..n}

Edge(s, t) == [source |-> s, target |-> t]

Meta(t) == [risk_threshold |-> t]

NoMeta == [k \in {} |-> 0]

\* Graphs whose nodes carry all six features, every degree and score.
CompleteGraphs ==
    UNION {{[i \in 1..n |-> [id |-> ids[i],
                             features |-> CompleteFeatures(a[i][1], a[i][2])]] :
              ids \in InjSeqs(Ids, n), a \in [1..n -> Degrees \X Scores]} :
           n \in 0..MaxNodes}

\* Graphs of uniform nodes, each of which may lack one feature.
LackingGraphs ==
    UNION {{[i \in 1..n |-> [id |-> ids[i],
                             features |-> Drop(CompleteFeatures(2, 5), m[i])]] :
              ids \in InjSeqs(Ids, n), m \in [1..n -> FeatureSet \cup {"none"}]} :
           n \in 0..MaxNodes}

\* Graphs of uniform complete nodes.
UniformGraphs ==
    UNION {{[i \in 1..n |-> [id |-> ids[i], features |-> CompleteFeatures(2, 5)]] :
              ids \in InjSeqs(Ids, n)} :
           n \in 0..MaxNodes}

\* No edge, or one self-loop on the first node.
LoopLists(nodes) ==
    {<<>>} \cup (IF Len(nodes) = 0 THEN {} ELSE {<<Edge(nodes[1].id, nodes[1].id)>>})

\* Edges in both directions, self-loops, edges to ids that may be no node,
\* and edges that lack an endpoint.
EdgePool ==
    {Edge(s, t) : s \in EdgeIds, t \in EdgeIds}
        \cup {Edge("a", "b"), Edge("b", "a")}
        \cup {[source |-> "a"], [target |-> "a"]}

\* The requests: every labelling case with few edges, every missing field,
\* and every edge list over uniform nodes.
IsRequest(r) ==
    \/ \E g \in CompleteGraphs :
          r = [nodes |-> g, edges |-> <<>>, metadata |-> NoMeta]
    \/ \E g \in CompleteGraphs : \E e \in LoopLists(g) : \E t \in Thresholds :
          r = [nodes |-> g, edges |-> e, metadata |-> Meta(t)]
    \/ \E g \in LackingGraphs : \E e \in LoopLists(g) :
          r = [nodes |-> g, edges |-> e, metadata |-> Meta(5)]
    \/ \E g \in UniformGraphs : \E e \in SeqsUpTo(EdgePool, MaxEdges) :
          r = [nodes |-> g, edges |-> e, metadata |-> Meta(5)]

\* ------------------------------------------------------------------ state
VARIABLES
    request,          \* graph_data = request.json
    pc,               \* position in run_gcn
    raisedAt,         \* position at which an exception was raised, or "none"
    threshold,        \* run_gcn: threshold
    li,               \* apply_hybrid_labeling: nodes already visited
    threshold_fraud,  \* apply_hybrid_labeling: set
    threshold_clean,  \* apply_hybrid_labeling: set
    fraud_nodes,      \* list(set): its elements
    clean_nodes,      \* list(set): its elements
    unknown_nodes,    \* list
    pi,               \* prepare_pyg_data: nodes already visited
    node_id_map,      \* dict id -> 0-based index
    node_features,    \* list of rows
    node_labels,      \* list of 0 / 1
    train_mask,       \* list of booleans
    ei,               \* prepare_pyg_data: edges already visited
    edge_list,        \* list of <<src, tgt>>
    edge_index_shape, \* shape of data.edge_index, <<>> before it exists
    training,         \* model.training
    epoch,            \* iterations of the training loop completed
    optSteps,         \* calls of optimizer.step()
    loss,             \* last loss: "none", "number" or "nan"
    evalForwards,     \* forward passes made in evaluation mode
    stepsAfterInference, \* optimizer steps made after the inference pass
    fraud_probs,      \* list of probabilities in percent
    response          \* the JSON answer

labelVars == <<li, threshold_fraud, threshold_clean, fraud_nodes, clean_nodes, unknown_nodes>>
nodeVars == <<pi, node_id_map, node_features, node_labels, train_mask>>
edgeVars == <<ei, edge_list, edge_index_shape>>
trainVars == <<training, epoch, optSteps, loss, evalForwards, stepsAfterInference, fraud_probs>>

vars == <<request, pc, raisedAt, threshold, labelVars, nodeVars, edgeVars, trainVars, response>>

NoResponse == [pending |-> TRUE]

Init ==
    /\ IsRequest(request)
    /\ pc = "start"
    /\ raisedAt = "none"
    /\ threshold = "unset"
    /\ li = 0
    /\ threshold_fraud = {}
    /\ threshold_clean = {}
    /\ fraud_nodes = {}
    /\ clean_nodes = {}
    /\ unknown_nodes = <<>>
    /\ pi = 0
    /\ node_id_map = [k \in {} |-> 0]
    /\ node_features = <<>>
    /\ node_labels = <<>>
    /\ train_mask = <<>>
    /\ ei = 0
    /\ edge_list = <<>>
    /\ edge_index_shape = <<>>
    /\ training = TRUE
    /\ epoch = 0
    /\ optSteps = 0
    /\ loss = "none"
    /\ evalForwards = 0
    /\ stepsAfterInference = 0
    /\ fraud_probs = <<>>
    /\ response = NoResponse

\* except Exception as e: return jsonify({'success': False, 'error': str(e)}), 500
Raise(e) ==
    /\ pc' = "done"
    /\ raisedAt' = pc
    /\ response' = [success |-> FALSE, error |-> e, status |-> 500]

\* ------------------------------------------------------------- run_gcn
\* threshold = graph_data['metadata']['risk_threshold']
ReadThreshold ==
    /\ pc = "start"
    /\ IF "risk_threshold" \in DOMAIN request.metadata
         THEN /\ threshold' = request.metadata.risk_threshold
              /\ pc' = "label"
              /\ UNCHANGED <<raisedAt, response>>
         ELSE /\ Raise("risk_threshold")
              /\ UNCHANGED threshold
    /\ UNCHANGED <<request, labelVars, nodeVars, edgeVars, trainVars>>

\* ------------------------------------------------- apply_hybrid_labeling
FRAUD_THRESHOLD_HIGH(t) == 16 * t     \* threshold * 1.6, in tenths

CLEAN_THRESHOLD_LOW(t) == 8 * t       \* threshold * 0.8, in tenths

\* Mutant: the clean test is made before the fraud test.
ThresholdLabel_CleanFirst(micro_score, degree, t) ==
    IF 10 * micro_score <= CLEAN_THRESHOLD_LOW(t) /\ degree <= 2 THEN "clean"
    ELSE IF 10 * micro_score >= FRAUD_THRESHOLD_HIGH(t) THEN "fraud"
    ELSE "none"

\* Mutant: the fraud test compares the wrong way round.
ThresholdLabel_FraudBelow(micro_score, degree, t) ==
    IF 10 * micro_score <= FRAUD_THRESHOLD_HIGH(t) THEN "fraud"
    ELSE IF 10 * micro_score <= CLEAN_THRESHOLD_LOW(t) /\ degree <= 2 THEN "clean"
    ELSE "none"

\* The if / elif of the loop body for a node that is not manually labelled.
ThresholdLabel(micro_score, degree, t) ==
    IF 10 * micro_score >= FRAUD_THRESHOLD_HIGH(t) THEN "fraud"
    ELSE IF 10 * micro_score <= CLEAN_THRESHOLD_LOW(t) /\ degree <= 2 THEN "clean"
    ELSE "none"

\* One iteration of: for node in graph_data['nodes'].
LabelStep ==
    /\ pc = "label"
    /\ li < Len(request.nodes)
    /\ LET node == request.nodes[li + 1]
           f == node.features
       IN  IF "micro_score" \notin DOMAIN f
             THEN Raise("micro_score") /\ UNCHANGED labelVars
           ELSE IF "degree" \notin DOMAIN f
             THEN Raise("degree") /\ UNCHANGED labelVars
           ELSE /\ li' = li + 1
                /\ IF node.id \in manual_fraud \/ node.id \in manual_clean
                     THEN UNCHANGED <<threshold_fraud, threshold_clean>>
                     ELSE LET l == ThresholdLabel(f.micro_score, f.degree, threshold)
                          IN  /\ threshold_fraud' =
                                    IF l = "fraud" THEN threshold_fraud \cup {node.id}
                                    ELSE threshold_fraud
                              /\ threshold_clean' =
                                    IF l = "clean" THEN threshold_clean \cup {node.id}
                                    ELSE threshold_clean
                /\ UNCHANGED <<pc, raisedAt, response, fraud_nodes, clean_nodes, unknown_nodes>>
    /\ UNCHANGED <<request, threshold, nodeVars, edgeVars, trainVars>>

\* fraud_nodes = list(manual_fraud.union(threshold_fraud))
FraudList(tf) == manual_fraud \cup tf

\* clean_nodes = list(manual_clean.union(threshold_clean))
CleanList(tc) == manual_clean \cup tc

\* unknown_nodes = [n['id'] for n in nodes if n['id'] not in fraud and not in clean]
UnknownList(nodes, fraud, clean) ==
    LET keep(n) == n.id \notin fraud /\ n.id \notin clean
        ids == [i \in 1..Len(nodes) |-> nodes[i]]
        kept == SelectSeq(ids, keep)
    IN  [i \in 1..Len(kept) |-> kept[i].id]

\* The three lists are built and returned.
LabelReturn ==
    /\ pc = "label"
    /\ li = Len(request.nodes)
    /\ fraud_nodes' = FraudList(threshold_fraud)
    /\ clean_nodes' = CleanList(threshold_clean)
    /\ unknown_nodes' = UnknownList(request.nodes, fraud_nodes', clean_nodes')
    /\ pc' = "prepare_nodes"
    /\ UNCHANGED <<request, raisedAt, threshold, li, threshold_fraud, threshold_clean,
                   nodeVars, edgeVars, trainVars, response>>

\* ------------------------------------------------------ prepare_pyg_data
\* The first key of the features list that node['features'] lacks, or "none".
FirstMissing(f) ==
    LET lacking == {i \in 1..Len(FeatureOrder) : FeatureOrder[i] \notin DOMAIN f}
    IN  IF lacking = {} THEN "none"
        ELSE FeatureOrder[CHOOSE i \in lacking : \A j \in lacking : i <= j]

\* features = [node['features']['degree'], ..., node['features']['micro_score']]
FeatureRow(f) == [i \in 1..Len(FeatureOrder) |-> f[FeatureOrder[i]]]

\* node_id_map[node['id']] = i
MapPut(m, id, i) == [k \in (DOMAIN m) \cup {id} |-> IF k = id THEN i ELSE m[k]]

\* Mutant: every labelled node, clean ones too, gets label 1.
NodeLabel_LabelledIsOne(id, fraud, clean) == IF id \in fraud \/ id \in clean THEN 1 ELSE 0

\* The label appended for a node: 1 if its id is in fraud_nodes, else 0.
NodeLabel(id, fraud, clean) == IF id \in fraud THEN 1 ELSE 0

\* The mask entry appended for a node.
NodeMask(id, fraud, clean) == id \in fraud \/ id \in clean

\* One iteration of: for i, node in enumerate(graph_data['nodes']).
PrepareNodeStep ==
    /\ pc = "prepare_nodes"
    /\ pi < Len(request.nodes)
    /\ LET node == request.nodes[pi + 1]
           missing == FirstMissing(node.features)
       IN  /\ node_id_map' = MapPut(node_id_map, node.id, pi)
           /\ IF missing # "none"
                THEN /\ Raise(missing)
                     /\ UNCHANGED <<pi, node_features, node_labels, train_mask>>
                ELSE /\ node_features' = Append(node_features, FeatureRow(node.features))
                     /\ node_labels' =
                            Append(node_labels, NodeLabel(node.id, fraud_nodes, clean_nodes))
                     /\ train_mask' =
                            Append(train_mask, NodeMask(node.id, fraud_nodes, clean_nodes))
                     /\ pi' = pi + 1
                     /\ UNCHANGED <<pc, raisedAt, response>>
    /\ UNCHANGED <<request, threshold, labelVars, edgeVars, trainVars>>

\* x, y and train_mask become tensors; edge_list = [].
NodeTensors ==
    /\ pc = "prepare_nodes"
    /\ pi = Len(request.nodes)
    /\ pc' = "prepare_edges"
    /\ UNCHANGED <<request, raisedAt, threshold, labelVars, nodeVars, edgeVars,
                   trainVars, response>>

\* if edge['source'] in node_id_map and edge['target'] in node_id_map:
\* the key read that raises KeyError, or "none".  `and` does not read
\* edge['target'] when the source is no key of the map.
EdgeKeyError(edge, m) ==
    IF "source" \notin DOMAIN edge THEN "source"
    ELSE IF edge.source \notin DOMAIN m THEN "none"
    ELSE IF "target" \notin DOMAIN edge THEN "target"
    ELSE "none"

\* The condition of the if, for an edge whose reads raise nothing.
EdgeKept(edge, m) ==
    /\ edge.source \in DOMAIN m
    /\ edge.target \in DOMAIN m

\* Mutant: the pair is emitted target first.
EdgeEntry_Reversed(edge, m) == <<m[edge.target], m[edge.source]>>

\* edge_list.append([src, tgt])
EdgeEntry(edge, m) == <<m[edge.source], m[edge.target]>>

\* One iteration of: for edge in graph_data['edges'].
PrepareEdgeStep ==
    /\ pc = "prepare_edges"
    /\ ei < Len(request.edges)
    /\ LET edge == request.edges[ei + 1]
           err == EdgeKeyError(edge, node_id_map)
       IN  IF err # "none"
             THEN Raise(err) /\ UNCHANGED <<ei, edge_list>>
             ELSE /\ ei' = ei + 1
                  /\ edge_list' =
                        IF EdgeKept(edge, node_id_map)
                          THEN Append(edge_list, EdgeEntry(edge, node_id_map))
                          ELSE edge_list
                  /\ UNCHANGED <<pc, raisedAt, response>>
    /\ UNCHANGED <<request, threshold, labelVars, nodeVars, edge_index_shape, trainVars>>

\* Shape of torch.tensor(l) for a list l of [src, tgt] pairs: an empty list
\* gives a one-dimensional tensor of no elements.
ListShape(l) == IF Len(l) = 0 THEN <<0>> ELSE <<Len(l), 2>>

\* Shape after .t(): a tensor of fewer than two dimensions is returned as is.
TransposeShape(shape) ==
    IF Len(shape) = 2 THEN <<shape[2], shape[1]>> ELSE shape

\* edge_index = torch.tensor(edge_list, dtype=torch.long).t().contiguous()
EdgeIndexShape(l) == TransposeShape(ListShape(l))

\* edge_index and data are built; back in run_gcn a fresh model (in training
\* mode, as every new module) and its optimizer are created.
EdgeIndex ==
    /\ pc = "prepare_edges"
    /\ ei = Len(request.edges)
    /\ edge_index_shape' = EdgeIndexShape(edge_list)
    /\ pc' = "train"
    /\ UNCHANGED <<request, raisedAt, threshold, labelVars, nodeVars, ei, edge_list,
                   trainVars, response>>

\* ------------------------------------------------------ model and training
\* The convolution layers read the two rows of edge_index, edge_index[0] and
\* edge_index[1]; a tensor without two rows makes the forward pass raise.
ForwardRaises(shape) == Len(shape) # 2 \/ shape[1] # 2

\* F.nll_loss(out[mask], y[mask]): the mean over no rows is nan.
NllLoss(mask) ==
    IF \E i \in 1..Len(mask) : mask[i] THEN "number" ELSE "nan"

\* The loop of run_gcn runs while this holds: for epoch in range(100).
LoopContinues(e) == e < EPOCHS

\* One iteration of the training loop: train_step(model, data, optimizer).
TrainStep ==
    /\ pc = "train"
    /\ LoopContinues(epoch)
    /\ training' = TRUE
    /\ IF ForwardRaises(edge_index_shape)
         THEN /\ Raise("IndexError")
              /\ UNCHANGED <<epoch, optSteps, loss, stepsAfterInference>>
         ELSE /\ loss' = NllLoss(train_mask)
              /\ optSteps' = optSteps + 1
              /\ stepsAfterInference' =
                    IF evalForwards > 0 THEN stepsAfterInference + 1
                    ELSE stepsAfterInference
              /\ epoch' = epoch + 1
              /\ UNCHANGED <<pc, raisedAt, response>>
    /\ UNCHANGED <<request, threshold, labelVars, nodeVars, edgeVars, evalForwards,
                   fraud_probs>>

\* model.eval(); with torch.no_grad(): out = model(...); fraud_probs = exp(out)[:, 1]
Infer ==
    /\ pc = "train"
    /\ ~LoopContinues(epoch)
    /\ training' = FALSE
    /\ IF ForwardRaises(edge_index_shape)
         THEN /\ Raise("IndexError")
              /\ UNCHANGED <<evalForwards, fraud_probs>>
         ELSE /\ evalForwards' = evalForwards + 1
              /\ fraud_probs' \in [1..Len(request.nodes) -> Probs]
              /\ pc' = "respond"
              /\ UNCHANGED <<raisedAt, response>>
    /\ UNCHANGED <<request, threshold, labelVars, nodeVars, edgeVars, epoch, optSteps,
                   loss, stepsAfterInference>>

\* ------------------------------------------------------------- response
get_node_label(node_id, fraud, clean) ==
    IF node_id \in fraud THEN "FRAUD_LABELED"
    ELSE IF node_id \in clean THEN "CLEAN_LABELED"
    ELSE "UNKNOWN"

\* 'FRAUD' if fraud_probs[i] > 0.5 else 'CLEAN'
Prediction(p) == IF p > 50 THEN "FRAUD" ELSE "CLEAN"

Results ==
    [i \in 1..Len(request.nodes) |->
        [address |-> request.nodes[i].id,
         microScore |-> request.nodes[i].features.micro_score,
         gcnProbability |-> fraud_probs[i],
         prediction |-> Prediction(fraud_probs[i]),
         label |-> get_node_label(request.nodes[i].id, fraud_nodes, clean_nodes)]]

Summary(results) ==
    [totalNodes |-> Len(results),
     fraudPredicted |-> Cardinality({i \in 1..Len(results) : results[i].prediction = "FRAUD"}),
     cleanPredicted |-> Cardinality({i \in 1..Len(results) : results[i].prediction = "CLEAN"}),
     labeledFraud |-> Cardinality(fraud_nodes),
     labeledClean |-> Cardinality(clean_nodes),
     unknown |-> Len(unknown_nodes)]

\* The results are formatted and the success form is returned.
Respond ==
    /\ pc = "respond"
    /\ response' = [success |-> TRUE, results |-> Results, summary |-> Summary(Results)]
    /\ pc' = "done"
    /\ UNCHANGED <<request, raisedAt, threshold, labelVars, nodeVars, edgeVars, trainVars>>

Next ==
    \/ ReadThreshold
    \/ LabelStep
    \/ LabelReturn
    \/ PrepareNodeStep
    \/ NodeTensors
    \/ PrepareEdgeStep
    \/ EdgeIndex
    \/ TrainStep
    \/ Infer
    \/ Respond

Spec == Init /\ [][Next]_vars

\* ------------------------------------------------------------ positions
NodeCount == Len(request.nodes)

NodeIds == {request.nodes[i].id : i \in 1..NodeCount}

\* apply_hybrid_labeling has returned.
Labelled == pc \notin {"start", "label"} /\ raisedAt \notin {"start", "label"}

\* The node loop of prepare_pyg_data has finished.
NodesPrepared ==
    pc \notin {"start", "label", "prepare_nodes"}
        /\ raisedAt \notin {"start", "label", "prepare_nodes"}

\* prepare_pyg_data has returned.
Prepared == NodesPrepared /\ pc # "prepare_edges" /\ raisedAt # "prepare_edges"

Succeeded == pc = "done" /\ response.success

Failed == pc = "done" /\ ~response.success

Range(seq) == {seq[i] : i \in 1..Len(seq)}

NoDuplicates(seq) == \A i, j \in 1..Len(seq) : i # j => seq[i] # seq[j]

IsManual(id) == id \in manual_fraud \/ id \in manual_clean

\* ------------------------------------------------------------------ C1
\* C1: the three lists returned by apply_hybrid_labeling are pairwise
\* disjoint, hold no duplicates, and together hold exactly the node ids of
\* the graph.
C1_Partition ==
    Labelled =>
        /\ fraud_nodes \cap clean_nodes = {}
        /\ fraud_nodes \cap Range(unknown_nodes) = {}
        /\ clean_nodes \cap Range(unknown_nodes) = {}
        /\ NoDuplicates(unknown_nodes)
        /\ fraud_nodes \cup clean_nodes \cup Range(unknown_nodes) = NodeIds

\* ------------------------------------------------------------------ C2
\* C2: in every successful response,
\* labeledFraud + labeledClean + unknown = totalNodes.
C2_CountsReconcile ==
    Succeeded =>
        response.summary.labeledFraud + response.summary.labeledClean
            + response.summary.unknown = response.summary.totalNodes

\* ------------------------------------------------------------------ C3
\* C3: when the training mask selects no row, no training step is executed
\* and no success response is produced.
C3_EmptyMaskFailsFast ==
    (Prepared /\ \A i \in 1..Len(train_mask) : ~train_mask[i]) =>
        /\ epoch = 0
        /\ optSteps = 0
        /\ loss = "none"
        /\ ~Succeeded

\* ------------------------------------------------------------------ C4
\* The nodes the claim is about: not manually labelled, micro_score <= 0,
\* degree <= 2.
C4_Case(n) ==
    /\ ~IsManual(n.id)
    /\ n.features.micro_score <= 0
    /\ n.features.degree <= 2

\* C4 as claimed: if threshold <= 0, every node that is not manually
\* labelled and has micro_score <= 0 and degree <= 2 is in the clean list.
C4_NonPositiveThresholdClean ==
    (Labelled /\ threshold <= 0) =>
        \A i \in 1..NodeCount :
            C4_Case(request.nodes[i]) => request.nodes[i].id \in clean_nodes

\* C4 as amended: if threshold <= 0, such a node is in the clean list when
\* its micro_score is below threshold * 1.6, and in the fraud list (not the
\* clean list) when its micro_score is at least threshold * 1.6.
C4_NonPositiveThresholdAmended ==
    (Labelled /\ threshold <= 0) =>
        \A i \in 1..NodeCount :
            LET n == request.nodes[i]
            IN  C4_Case(n) =>
                    IF 10 * n.features.micro_score < 16 * threshold
                      THEN n.id \in clean_nodes /\ n.id \notin fraud_nodes
                      ELSE n.id \in fraud_nodes /\ n.id \notin clean_nodes

\* Reached: a non-positive threshold with one such node made clean and
\* another made fraud.
C4_Witness ==
    /\ Labelled
    /\ threshold <= 0
    /\ \E i, j \in 1..NodeCount :
          /\ C4_Case(request.nodes[i])
          /\ request.nodes[i].id \in clean_nodes
          /\ C4_Case(request.nodes[j])
          /\ request.nodes[j].id \in fraud_nodes

\* ------------------------------------------------------------------ C5
\* C5: an empty edge list gives an edge-index tensor of shape [2, 0].
C5_EmptyEdgeListShape ==
    (Prepared /\ Len(request.edges) = 0) => edge_index_shape = <<2, 0>>

\* ------------------------------------------------------------------ C6
\* The list a node of the graph is put in under threshold t.
C6_FraudAt(n, t) ==
    \/ n.id \in manual_fraud
    \/ ~IsManual(n.id)
         /\ ThresholdLabel(n.features.micro_score, n.features.degree, t) = "fraud"

C6_ThresholdFraudAt(n, t) ==
    ~IsManual(n.id)
        /\ ThresholdLabel(n.features.micro_score, n.features.degree, t) = "fraud"

C6_CleanAt(n, t) ==
    \/ n.id \in manual_clean /\ n.id \notin manual_fraud
    \/ ~IsManual(n.id)
         /\ ThresholdLabel(n.features.micro_score, n.features.degree, t) = "clean"

\* C6: for the same graph and thresholds t1 <= t2, a node that is
\* threshold-fraud at t2 is threshold-fraud at t1, a node that is clean at t1
\* is clean at t2, and a node that is clean or unknown at t1 is not fraud at
\* t2.  The lists of the state are those of the request's threshold, which
\* is compared with every other threshold, above and below.
C6_ThresholdMonotone ==
    Labelled =>
        \A i \in 1..NodeCount : \A t \in Thresholds :
            LET n == request.nodes[i]
            IN  /\ threshold <= t =>
                      /\ C6_ThresholdFraudAt(n, t) => n.id \in threshold_fraud
                      /\ n.id \in clean_nodes => C6_CleanAt(n, t)
                      /\ n.id \notin fraud_nodes => ~C6_FraudAt(n, t)
                /\ t <= threshold =>
                      /\ n.id \in threshold_fraud => C6_ThresholdFraudAt(n, t)
                      /\ C6_CleanAt(n, t) => n.id \in clean_nodes
                      /\ ~C6_FraudAt(n, t) => n.id \notin fraud_nodes

\* Reached: two thresholds t1 < t2 and a node that is threshold-fraud at t1
\* and clean at t2, next to a node that is clean at both.
C6_Witness ==
    /\ Labelled
    /\ \E i, j \in 1..NodeCount : \E t \in Thresholds :
          /\ threshold < t
          /\ request.nodes[i].id \in threshold_fraud
          /\ C6_CleanAt(request.nodes[i], t)
          /\ request.nodes[j].id \in clean_nodes
          /\ C6_CleanAt(request.nodes[j], t)

\* ------------------------------------------------------------------ C7
\* C7: for every node index i, train_mask[i] is true iff the node at i is in
\* fraud_nodes or clean_nodes, and the label at i is 1 iff it is in
\* fraud_nodes; once the node loop has finished there is one entry per node.
C7_MaskLabelCoherence ==
    /\ Len(train_mask) = Len(node_labels)
    /\ Len(train_mask) <= NodeCount
    /\ NodesPrepared => Len(train_mask) = NodeCount
    /\ \A i \in 1..Len(train_mask) :
          /\ train_mask[i] <=>
                (request.nodes[i].id \in fraud_nodes
                    \/ request.nodes[i].id \in clean_nodes)
          /\ node_labels[i] = 1 <=> request.nodes[i].id \in fraud_nodes
          /\ node_labels[i] \in {0, 1}

\* Reached: tensors with a fraud node, a clean node (mask true, label 0)
\* and, in another entry or request, an unknown node (mask false, label 0).
C7_Witness ==
    /\ NodesPrepared
    /\ \E i, j \in 1..Len(train_mask) :
          /\ node_labels[i] = 1 /\ train_mask[i]
          /\ node_labels[j] = 0
          /\ request.nodes[j].id \in Range(unknown_nodes) \cup clean_nodes
          /\ train_mask[j] = (request.nodes[j].id \in clean_nodes)

\* ------------------------------------------------------------------ C8
\* 0-based position of a node id in the node sequence.
C8_IndexOf(id) == (CHOOSE i \in 1..NodeCount : request.nodes[i].id = id) - 1

C8_BothAreNodes(e) ==
    /\ "source" \in DOMAIN e
    /\ "target" \in DOMAIN e
    /\ e.source \in NodeIds
    /\ e.target \in NodeIds

\* The edges of the request between nodes, in the given order and
\* direction, as index pairs.
C8_Expected ==
    LET es == [k \in 1..Len(request.edges) |-> request.edges[k]]
        kept == SelectSeq(es, C8_BothAreNodes)
    IN  [k \in 1..Len(kept) |-> <<C8_IndexOf(kept[k].source), C8_IndexOf(kept[k].target)>>]

\* C8: the emitted edge list is the input edge sequence restricted to the
\* edges whose source and target are node ids, each as (index of source,
\* index of target), order, duplicates and self-loops kept; an edge that
\* names an id which is no node raises nothing.
C8_EdgeFiltering ==
    /\ Prepared =>
          /\ Len(edge_list) = Len(C8_Expected)
          /\ \A k \in 1..Len(edge_list) : edge_list[k] = C8_Expected[k]
    /\ raisedAt = "prepare_edges" =>
          \E k \in 1..Len(request.edges) :
              \/ "source" \notin DOMAIN request.edges[k]
              \/ "target" \notin DOMAIN request.edges[k]

\* Reached: an edge list of two edges, one dropped for naming an id that is
\* no node, one kept between two different nodes.
C8_Witness ==
    /\ Prepared
    /\ Len(request.edges) = 2
    /\ Len(edge_list) = 1
    /\ edge_list[1][1] # edge_list[1][2]
    /\ \E k \in 1..2 :
          /\ DOMAIN request.edges[k] = {"source", "target"}
          /\ ~C8_BothAreNodes(request.edges[k])

\* ------------------------------------------------------------------ C9
MissingField ==
    \/ "risk_threshold" \notin DOMAIN request.metadata
    \/ \E i \in 1..NodeCount : FeatureSet \ DOMAIN request.nodes[i].features # {}
    \/ \E k \in 1..Len(request.edges) :
          {"source", "target"} \ DOMAIN request.edges[k] # {}

\* C9: a request with a missing required field ends with the error form,
\* and prepare_pyg_data has then built no part of the node-index map or of
\* the feature rows.
C9_MissingFieldFailsBeforeTensorization ==
    (pc = "done" /\ MissingField) =>
        /\ ~response.success
        /\ DOMAIN node_id_map = {}
        /\ Len(node_features) = 0

\* ----------------------------------------------------------------- C10
\* C10: a request that reached training ends with exactly 100 training
\* steps made, each in training mode; inference happens once, after the
\* 100th optimizer step and in evaluation mode, and no optimizer step
\* follows it.
C10_HundredStepsThenInference ==
    /\ (pc = "done" /\ raisedAt \in {"train", "none"}) =>
          optSteps = EPOCHS /\ epoch = EPOCHS
    /\ pc = "train" => training
    /\ evalForwards > 0 => optSteps = EPOCHS /\ ~training /\ evalForwards = 1
    /\ stepsAfterInference = 0
=============================================================================
